---- MODULE Spec2Model ----
(***************************************************************************)
(* Model of app/config/config.py of MoneyPrinterTurbo:                     *)
(*   - safe_remove_path: deletion of a path with a bounded retry loop,     *)
(*   - load_config / save_config: seeding, parsing and rewriting of        *)
(*     config.toml,                                                        *)
(*   - two processes running save_config on the same root.                 *)
(* Three specifications share the module: SpecRemove, SpecConfig and       *)
(* SpecSave; each leaves the variables of the other two untouched.         *)
(***************************************************************************)
EXTENDS Integers, Sequences, FiniteSets, TLC

VARIABLES
    \* ---- the filesystem around the path given to safe_remove_path
    pathKind,       \* what is at the path: "none", "file", "dir", "link", "other"
    pathKids,       \* the descendants of the path when it is a directory
    targetKind,     \* what is at the place a link at the path points to
    targetKids,     \* the descendants of that target when it is a directory
    \* ---- one call of safe_remove_path
    pc,             \* "idle", "loop", "sleep", "returned", "raised"
    retries,        \* the retries parameter of the running call
    attempt,        \* the loop variable of line 30
    attempts,       \* deletion attempts made by the running call
    delays,         \* time.sleep calls made by the running call
    err,            \* errno of the OSError that left the call, 0 if none
    errs,           \* errnos of the failed attempts of the running call
    op,             \* the deletion operation of the latest attempt
    pre,            \* the filesystem when the running call started
    prev,           \* how the call before the running one ended
    \* ---- config.toml, config.example.toml and the last load/save
    config,         \* [exists, data]: config.toml
    example,        \* [exists, data]: config.example.toml
    loaded,         \* [status, map, parses]: outcome of the last load_config
    lastSaved,      \* [any, map]: argument of the most recent save_config
    lastOp,         \* "none", "load", "save"
    preConfig,      \* config.toml when the last load_config started
    preExample,     \* config.example.toml when the last load_config started
    \* ---- two processes in save_config
    spc,            \* process -> "start", "opened", "written", "closed"
    sarg,           \* process -> the mapping it saves
    sbuf,           \* process -> TRUE while its text sits in the io buffer
    slog            \* the open and landing events, in order

rmVars  == <<pathKind, pathKids, targetKind, targetKids, pc, retries, attempt,
             attempts, delays, err, errs, op, pre, prev>>
cfgVars == <<config, example, loaded, lastSaved, lastOp, preConfig, preExample>>
svVars  == <<spc, sarg, sbuf, slog>>
vars    == <<rmVars, cfgVars, svVars>>

-----------------------------------------------------------------------------
(* Bounds of the model *)
MaxRetries == 3
MaxKids == 1

(* errno values *)
EBUSY == 16
ETXTBSY == 26
EROFS == 30
ENOENT == 2
EACCES == 13

-----------------------------------------------------------------------------
(***************************************************************************)
(* safe_remove_path                                                        *)
(***************************************************************************)
Kids == 1..MaxKids

\* The states a path can be in: only a directory has descendants.
PathStates ==
    {[kind |-> k, kids |-> {}] : k \in {"none", "file", "link", "other"}}
    \cup {[kind |-> "dir", kids |-> s] : s \in SUBSET Kids}

\* The states of the place a link at the path points to ("none": dangling).
TargetStates ==
    {[kind |-> k, kids |-> {}] : k \in {"none", "file"}}
    \cup {[kind |-> "dir", kids |-> s] : s \in SUBSET Kids}

\* os.path.islink: the entry itself is a symbolic link.
islink(kind) == kind = "link"

\* os.path.exists follows symbolic links: a dangling link does not exist.
exists(kind, tkind) == IF kind = "link" THEN tkind # "none" ELSE kind # "none"

\* Line 27: nothing to delete.  (First, the test with "not" lost before
\* os.path.islink, a fault the claims must tell from the code.)
PathAbsentLinkOnly(kind, tkind) == ~exists(kind, tkind) /\ islink(kind)

PathAbsent(kind, tkind) == ~exists(kind, tkind) /\ ~islink(kind)

\* Lines 32-42: the operation an attempt picks for what is at the path now.
Classify(kind) ==
    IF islink(kind) THEN "unlink"
    ELSE IF kind = "file" THEN "remove"
    ELSE IF kind = "dir" THEN "rmtree"
    ELSE "fallback_unlink"

\* The errors a deletion of an existing entry may raise.
InjectedErrnos == {EBUSY, ETXTBSY, EROFS, EACCES}

\* Line 45: EBUSY, ETXTBSY, EROFS.
Transient == {EBUSY, ETXTBSY, EROFS}

\* Line 46: the retry condition.  (First, the faulty attempt <= retries.)
ShouldRetryOffByOne(a, r, e) == a <= r /\ e \in Transient

ShouldRetry(a, r, e) == a < r /\ e \in Transient

Snapshot == [kind |-> pathKind, kids |-> pathKids,
             tkind |-> targetKind, tkids |-> targetKids]

\* Lines 19-30: the existence check and the entry into the loop.
safe_remove_path(r) ==
    /\ pc \in {"idle", "returned", "raised"}
    /\ prev' = IF pc = "idle" THEN "none"
               ELSE IF pc = "raised" THEN "raised"
               ELSE IF attempts > 0 THEN "deleted" ELSE "noop"
    /\ pre' = Snapshot
    /\ retries' = r
    /\ attempts' = 0
    /\ delays' = 0
    /\ err' = 0
    /\ errs' = <<>>
    /\ op' = "none"
    /\ IF PathAbsent(pathKind, targetKind)
         THEN pc' = "returned" /\ attempt' = 0
         ELSE IF r < 1
                THEN pc' = "returned" /\ attempt' = 0   \* range(1, r + 1) is empty
                ELSE pc' = "loop" /\ attempt' = 1
    /\ UNCHANGED <<pathKind, pathKids, targetKind, targetKids>>

\* Lines 32-34: os.unlink on a link removes the link entry only.  (First,
\* a faulty removal that follows the link and takes the target with it.)
UnlinkFollowsLink ==
    /\ pathKind' = "none"
    /\ pathKids' = {}
    /\ targetKind' = "none"
    /\ targetKids' = {}

UnlinkLink ==
    /\ pathKind' = "none"
    /\ pathKids' = {}
    /\ UNCHANGED <<targetKind, targetKids>>

\* Lines 35-43: os.remove, shutil.rmtree or the fallback os.unlink succeeded.
RemoveEntry ==
    /\ pathKind' = "none"
    /\ pathKids' = {}
    /\ UNCHANGED <<targetKind, targetKids>>

\* Lines 47-48: sleep, then continue.  (First, a faulty retry without sleep.)
RetryNoSleep ==
    /\ pc' = "sleep"
    /\ UNCHANGED <<delays, err>>

Retry ==
    /\ pc' = "sleep"
    /\ delays' = delays + 1
    /\ UNCHANGED err

\* Lines 44-49: the handler of OSError.
HandleOSError(e) ==
    /\ errs' = Append(errs, e)
    /\ IF ShouldRetry(attempt, retries, e)
         THEN Retry
         ELSE pc' = "raised" /\ err' = e /\ UNCHANGED delays

\* Lines 31-49: one iteration of the loop.
Attempt ==
    /\ pc = "loop"
    /\ attempts' = attempts + 1
    /\ op' = Classify(pathKind)
    /\ \/ /\ pathKind = "link"
          /\ UnlinkLink
          /\ pc' = "returned"
          /\ UNCHANGED <<delays, err, errs>>
       \/ /\ pathKind \in {"file", "dir", "other"}
          /\ RemoveEntry
          /\ pc' = "returned"
          /\ UNCHANGED <<delays, err, errs>>
       \/ /\ pathKind = "none"              \* os.unlink of a missing path
          /\ HandleOSError(ENOENT)
          /\ UNCHANGED <<pathKind, pathKids, targetKind, targetKids>>
       \/ /\ pathKind \in {"file", "link", "other"}
          /\ \E e \in InjectedErrnos : HandleOSError(e)
          /\ UNCHANGED <<pathKind, pathKids, targetKind, targetKids>>
       \/ /\ pathKind = "dir"               \* rmtree may fail half way
          /\ \E e \in InjectedErrnos : HandleOSError(e)
          /\ \E left \in SUBSET pathKids : pathKids' = left
          /\ UNCHANGED <<pathKind, targetKind, targetKids>>
    /\ UNCHANGED <<retries, attempt, pre, prev>>

\* Line 48 to line 30: the sleep is over, the next iteration starts.
Continue ==
    /\ pc = "sleep"
    /\ pc' = "loop"
    /\ attempt' = attempt + 1
    /\ UNCHANGED <<pathKind, pathKids, targetKind, targetKids, retries,
                   attempts, delays, err, errs, op, pre, prev>>

\* While the call sleeps another process replaces what is at the path.
PathChanges ==
    /\ pc = "sleep"
    /\ \E s \in PathStates :
          /\ <<s.kind, s.kids>> # <<pathKind, pathKids>>
          /\ pathKind' = s.kind
          /\ pathKids' = s.kids
    /\ UNCHANGED <<targetKind, targetKids, pc, retries, attempt, attempts,
                   delays, err, errs, op, pre, prev>>

-----------------------------------------------------------------------------
(***************************************************************************)
(* The text of a TOML file and the mappings toml.dumps / toml.loads        *)
(* convert it from and to.  A file is a sequence of lines; a value in a    *)
(* mapping is typed, a value in a line is its TOML text.                   *)
(***************************************************************************)
Line(kind, a, b) == [k |-> kind, a |-> a, b |-> b]

Str(s)  == [t |-> "str",  s |-> s,  i |-> 0, b |-> FALSE]
Num(i)  == [t |-> "int",  s |-> "", i |-> i, b |-> FALSE]
Bool(b) == [t |-> "bool", s |-> "", i |-> 0, b |-> b]

\* A string and the same string between double quotes.
StrTable ==
    { <<"", "\"\"">>, <<"DEBUG", "\"DEBUG\"">>, <<"INFO", "\"INFO\"">>,
      <<"0.0.0.0", "\"0.0.0.0\"">>, <<"8080", "\"8080\"">>,
      <<"MoneyPrinterTurbo", "\"MoneyPrinterTurbo\"">>,
      <<"<a href=...>", "\"<a href=...>\"">>, <<"1.2.6", "\"1.2.6\"">>,
      <<"/usr/bin/ffmpeg", "\"/usr/bin/ffmpeg\"">> }

\* An integer and its decimal text.
IntTable == { <<8080, "8080">>, <<9090, "9090">> }

\* toml.dumps of one value.
Format(v) ==
    CASE v.t = "str"  -> (CHOOSE p \in StrTable : p[1] = v.s)[2]
      [] v.t = "int"  -> (CHOOSE p \in IntTable : p[1] = v.i)[2]
      [] v.t = "bool" -> IF v.b THEN "true" ELSE "false"

\* toml.loads of one value; the text of no value is an error.
ValidToken(tok) ==
    \/ tok \in {"true", "false"}
    \/ \E p \in IntTable : p[2] = tok
    \/ \E p \in StrTable : p[2] = tok

ParseToken(tok) ==
    IF tok = "true" THEN Bool(TRUE)
    ELSE IF tok = "false" THEN Bool(FALSE)
    ELSE IF \E p \in IntTable : p[2] = tok
      THEN Num((CHOOSE p \in IntTable : p[2] = tok)[1])
      ELSE Str((CHOOSE p \in StrTable : p[2] = tok)[1])

EmptyTable == [k \in {} |-> Str("")]
EmptyMap == [top |-> EmptyTable, secs |-> [s \in {} |-> EmptyTable]]

\* The order in which toml.dumps walks the keys and the sections.
KeyOrder == <<"log_level", "listen_host", "listen_port", "project_name",
              "project_description", "project_version",
              "imagemagick_path", "ffmpeg_path", "hide_log">>
SecOrder == <<"app", "ui">>

TableLines(tbl) ==
    LET ks == SelectSeq(KeyOrder, LAMBDA k : k \in DOMAIN tbl)
    IN  [i \in 1..Len(ks) |-> Line("kv", ks[i], Format(tbl[ks[i]]))]

RECURSIVE SectionLines(_, _)
SectionLines(secs, order) ==
    IF order = <<>> THEN <<>>
    ELSE LET s == Head(order)
         IN  (IF s \in DOMAIN secs
                THEN <<Line("sec", s, "")>> \o TableLines(secs[s])
                ELSE <<>>)
             \o SectionLines(secs, Tail(order))

\* toml.dumps: the top-level values first, then each section under its header.
toml_dumps(m) == TableLines(m.top) \o SectionLines(m.secs, SecOrder)

ParseError == [ok |-> FALSE, map |-> EmptyMap]

\* toml.loads: line by line; a byte-order mark, a malformed line, a repeated
\* key or a repeated section header is a decode error.
RECURSIVE ParseLines(_, _, _)
ParseLines(lines, cur, m) ==
    IF lines = <<>> THEN [ok |-> TRUE, map |-> m]
    ELSE
      LET l == Head(lines)
          rest == Tail(lines)
      IN  CASE l.k \in {"comment", "blank"} -> ParseLines(rest, cur, m)
            [] l.k = "sec" ->
                 IF l.a \in DOMAIN m.secs THEN ParseError
                 ELSE ParseLines(rest, l.a,
                        [m EXCEPT !.secs = (l.a :> EmptyTable) @@ @])
            [] l.k = "kv" ->
                 IF ~ValidToken(l.b) THEN ParseError
                 ELSE IF cur = ""
                   THEN IF l.a \in DOMAIN m.top THEN ParseError
                        ELSE ParseLines(rest, cur,
                               [m EXCEPT !.top = (l.a :> ParseToken(l.b)) @@ @])
                   ELSE IF l.a \in DOMAIN m.secs[cur] THEN ParseError
                        ELSE ParseLines(rest, cur,
                               [m EXCEPT !.secs[cur] =
                                            (l.a :> ParseToken(l.b)) @@ @])
            [] OTHER -> ParseError

toml_loads(data) == ParseLines(data, "", EmptyMap)

BOM == Line("bom", "", "")

\* open(..., encoding="utf-8-sig").read(): one leading byte-order mark is
\* dropped.  (First, the faulty read with encoding="utf-8", which keeps it.)
ReadUtf8(data) == data

ReadUtf8Sig(data) ==
    IF data # <<>> /\ Head(data) = BOM THEN Tail(data) ELSE data

\* Lines 52-67.
_default_config_text ==
    << Line("comment", "", ""),
       Line("kv", "log_level", "\"DEBUG\""),
       Line("kv", "listen_host", "\"0.0.0.0\""),
       Line("kv", "listen_port", "8080"),
       Line("kv", "project_name", "\"MoneyPrinterTurbo\""),
       Line("kv", "project_description", "\"<a href=...>\""),
       Line("kv", "project_version", "\"1.2.6\""),
       Line("blank", "", ""),
       Line("sec", "app", ""),
       Line("kv", "imagemagick_path", "\"\""),
       Line("kv", "ffmpeg_path", "\"\""),
       Line("blank", "", ""),
       Line("sec", "ui", ""),
       Line("kv", "hide_log", "false") >>

File(data) == [exists |-> TRUE, data |-> data]
NoFile == [exists |-> FALSE, data |-> <<>>]

\* Lines 96-103: config.toml is written only when it is no regular file.
\* (First, the fault of copying the example without the test of line 96.)
SeedAlways(c, e) ==
    IF e.exists THEN File(e.data)
    ELSE IF ~c.exists THEN File(_default_config_text) ELSE c

Seed(c, e) ==
    IF ~c.exists
      THEN IF e.exists THEN File(e.data) ELSE File(_default_config_text)
      ELSE c

\* Lines 107-115: the parse, and on any failure one re-read and re-parse.
LoadResult(data) ==
    LET first == toml_loads(data)
    IN  IF first.ok
          THEN [status |-> "ok", map |-> first.map, parses |-> 1]
          ELSE LET second == toml_loads(ReadUtf8Sig(data))
               IN  IF second.ok
                     THEN [status |-> "ok", map |-> second.map, parses |-> 2]
                     ELSE [status |-> "error", map |-> EmptyMap, parses |-> 2]

NoResult == [status |-> "none", map |-> EmptyMap, parses |-> 0]

\* Lines 81-115.
load_config ==
    /\ preConfig' = config
    /\ preExample' = example
    /\ config' = Seed(config, example)
    /\ loaded' = LoadResult(Seed(config, example).data)
    /\ lastOp' = "load"
    /\ UNCHANGED <<example, lastSaved>>

\* Line 123: open(config_file, "w") empties the file; line 124 writes the
\* text.  (First, the fault of opening with mode "a".)
WriteAppend(old, text) == old \o text

WriteWhole(old, text) == text

\* Lines 118-125.
save_config(m) ==
    /\ config' = File(WriteWhole(config.data, toml_dumps(m)))
    /\ lastSaved' = [any |-> TRUE, map |-> m]
    /\ lastOp' = "save"
    /\ UNCHANGED <<example, loaded, preConfig, preExample>>

\* Tables of one optional key.
OptTable(key, values) == {EmptyTable} \cup {(key :> v) : v \in values}

\* The mappings given to save_config.
SaveArgs ==
    { [top |-> a @@ b, secs |-> c @@ d] :
        a \in OptTable("log_level", {Str("INFO")}),
        b \in OptTable("listen_port", {Num(8080), Str("8080")}),
        c \in {[s \in {} |-> EmptyTable],
               "ui" :> EmptyTable,
               "ui" :> ("hide_log" :> Bool(TRUE))},
        d \in {[s \in {} |-> EmptyTable],
               "app" :> ("ffmpeg_path" :> Str("/usr/bin/ffmpeg"))} }

CustomText ==
    << Line("kv", "log_level", "\"INFO\""),
       Line("kv", "listen_port", "9090"),
       Line("sec", "ui", ""),
       Line("kv", "hide_log", "true") >>

\* What config.toml and config.example.toml may hold before the program runs.
InitFiles ==
    { NoFile,
      File(<<>>),
      File(CustomText),
      File(<<BOM>> \o CustomText),
      File(<<Line("bad", "", "")>>),
      File(<<BOM, Line("bad", "", "")>>),
      File(<<BOM, BOM>> \o CustomText),
      File(<<Line("kv", "log_level", "\"INFO\""),
             Line("kv", "log_level", "\"DEBUG\"")>>) }

-----------------------------------------------------------------------------
(***************************************************************************)
(* Two processes in save_config on the same root.  Each holds its own file *)
(* object: its text is written at offset 0 of config.toml, either when     *)
(* f.write hands it to the file or when the with block closes the file.    *)
(***************************************************************************)
Procs == {1, 2}

Other(p) == CHOOSE q \in Procs : q # p

\* open(config_file, "w"): the file is created or emptied.  (First, the
\* fault of opening without truncation, as mode "r+" does.)
NoTruncate(old) == old

Truncate(old) == <<>>

\* A write of text at offset 0 over what the file holds.
Overlay(old, text) ==
    IF Len(old) > Len(text)
      THEN text \o SubSeq(old, Len(text) + 1, Len(old))
      ELSE text

Event(p, e) == [p |-> p, e |-> e]

\* Line 123, entering the with block.
Open(p) ==
    /\ spc[p] = "start"
    /\ spc' = [spc EXCEPT ![p] = "opened"]
    /\ config' = File(Truncate(config.data))
    /\ slog' = Append(slog, Event(p, "open"))
    /\ UNCHANGED <<sarg, sbuf>>

\* Line 124: f.write(toml.dumps(_cfg)).
Write(p) ==
    /\ spc[p] = "opened"
    /\ spc' = [spc EXCEPT ![p] = "written"]
    /\ \/ /\ sbuf' = [sbuf EXCEPT ![p] = TRUE]
          /\ UNCHANGED <<config, slog>>
       \/ /\ config' = File(Overlay(config.data, toml_dumps(sarg[p])))
          /\ slog' = Append(slog, Event(p, "land"))
          /\ UNCHANGED sbuf
    /\ UNCHANGED sarg

\* Line 123, leaving the with block: the buffer is flushed, the file closed.
Close(p) ==
    /\ spc[p] = "written"
    /\ spc' = [spc EXCEPT ![p] = "closed"]
    /\ IF sbuf[p]
         THEN /\ config' = File(Overlay(config.data, toml_dumps(sarg[p])))
              /\ slog' = Append(slog, Event(p, "land"))
              /\ sbuf' = [sbuf EXCEPT ![p] = FALSE]
         ELSE UNCHANGED <<config, slog, sbuf>>
    /\ UNCHANGED sarg

-----------------------------------------------------------------------------
(* The specifications *)
RmIdle ==
    /\ pathKind = "none" /\ pathKids = {}
    /\ targetKind = "none" /\ targetKids = {}
    /\ pc = "idle" /\ retries = 0 /\ attempt = 0 /\ attempts = 0
    /\ delays = 0 /\ err = 0 /\ errs = <<>> /\ op = "none"
    /\ pre = [kind |-> "none", kids |-> {}, tkind |-> "none", tkids |-> {}]
    /\ prev = "none"

CfgIdle ==
    /\ config = NoFile /\ example = NoFile
    /\ loaded = NoResult
    /\ lastSaved = [any |-> FALSE, map |-> EmptyMap]
    /\ lastOp = "none"
    /\ preConfig = NoFile /\ preExample = NoFile

SvIdle ==
    /\ spc = [p \in Procs |-> "start"]
    /\ sarg = [p \in Procs |-> EmptyMap]
    /\ sbuf = [p \in Procs |-> FALSE]
    /\ slog = <<>>

InitRemove ==
    /\ \E s \in PathStates : pathKind = s.kind /\ pathKids = s.kids
    /\ \E t \in TargetStates : targetKind = t.kind /\ targetKids = t.kids
    /\ pc = "idle" /\ retries = 0 /\ attempt = 0 /\ attempts = 0
    /\ delays = 0 /\ err = 0 /\ errs = <<>> /\ op = "none"
    /\ pre = [kind |-> "none", kids |-> {}, tkind |-> "none", tkids |-> {}]
    /\ prev = "none"
    /\ CfgIdle
    /\ SvIdle

NextRemove ==
    \/ \E r \in 0..MaxRetries : safe_remove_path(r) /\ UNCHANGED <<cfgVars, svVars>>
    \/ Attempt /\ UNCHANGED <<cfgVars, svVars>>
    \/ Continue /\ UNCHANGED <<cfgVars, svVars>>
    \/ PathChanges /\ UNCHANGED <<cfgVars, svVars>>

SpecRemove == InitRemove /\ [][NextRemove]_vars

InitConfig ==
    /\ config \in InitFiles
    /\ example \in InitFiles
    /\ loaded = NoResult
    /\ lastSaved = [any |-> FALSE, map |-> EmptyMap]
    /\ lastOp = "none"
    /\ preConfig = NoFile /\ preExample = NoFile
    /\ RmIdle
    /\ SvIdle

NextConfig ==
    \/ load_config /\ UNCHANGED <<rmVars, svVars>>
    \/ \E m \in SaveArgs : save_config(m) /\ UNCHANGED <<rmVars, svVars>>

SpecConfig == InitConfig /\ [][NextConfig]_vars

InitSave ==
    /\ config \in {NoFile, File(_default_config_text)}
    /\ example = NoFile
    /\ loaded = NoResult
    /\ lastSaved = [any |-> FALSE, map |-> EmptyMap]
    /\ lastOp = "none"
    /\ preConfig = NoFile /\ preExample = NoFile
    /\ spc = [p \in Procs |-> "start"]
    /\ sarg \in [Procs -> SaveArgs]
    /\ sbuf = [p \in Procs |-> FALSE]
    /\ slog = <<>>
    /\ RmIdle

SaveFrame == UNCHANGED <<rmVars, example, loaded, lastSaved, lastOp,
                         preConfig, preExample>>

NextSave ==
    \/ \E p \in Procs : Open(p) /\ SaveFrame
    \/ \E p \in Procs : Write(p) /\ SaveFrame
    \/ \E p \in Procs : Close(p) /\ SaveFrame

SpecSave == InitSave /\ [][NextSave]_vars

-----------------------------------------------------------------------------
(***************************************************************************)
(* The claims about safe_remove_path, checked under SpecRemove.            *)
(***************************************************************************)
Last(q) == q[Len(q)]

\* C1: whenever safe_remove_path returns normally, whatever the retry
\* parameters, nothing is left at the path: the entry is gone, and so are
\* the descendants of a directory.
C1_ReturnMeansGone ==
    pc = "returned" => (pathKind = "none" /\ pathKids = {})

\* C2: when the first k attempts (k < retries) fail with errno 16, 26 or 30
\* and attempt k+1 succeeds, the call returns after exactly k+1 attempts and
\* exactly k delays, and the path is gone.
C2_RetriesThenSuccess ==
    (pc = "returned" /\ attempts > 0) =>
        /\ \A i \in 1..Len(errs) : errs[i] \in {16, 26, 30}
        /\ Len(errs) < retries
        /\ attempts = Len(errs) + 1
        /\ delays = Len(errs)
        /\ pathKind = "none"
        /\ pathKids = {}

\* Two busy errors, then success on the third of the default three attempts.
C2_Witness ==
    /\ pc = "returned"
    /\ retries = 3
    /\ errs = <<16, 16>>
    /\ attempts = 3
    /\ delays = 2
    /\ pre.kind = "dir"
    /\ pathKind = "none"

\* C3: a failed attempt is propagated, with no further attempt and no delay,
\* when it is the final attempt or its errno is not 16, 26 or 30; a call never
\* makes more than retries attempts, and when every attempt has failed the
\* call has raised.
C3_FailurePropagates ==
    /\ attempts <= retries
    /\ pc = "sleep" =>
          /\ errs # <<>>
          /\ Last(errs) \in {16, 26, 30}
          /\ attempt < retries
          /\ delays = Len(errs)
    /\ pc = "raised" =>
          /\ errs # <<>>
          /\ err = Last(errs)
          /\ attempt = retries \/ err \notin {16, 26, 30}
          /\ attempts = Len(errs)
          /\ delays = Len(errs) - 1
    /\ (retries > 0 /\ Len(errs) = retries) => pc = "raised"

\* A transient error on each of the three attempts ends in a raise.
C3_Witness ==
    /\ pc = "raised"
    /\ retries = 3
    /\ errs = <<16, 26, 30>>
    /\ err = 30
    /\ delays = 2

\* C8: an attempt that finds a symbolic link at the path removes the link
\* entry only; the link's target and what lies beneath it stay as they were
\* when the call started, also when the removal happens on a retry.
C8_OnlyLinkRemoved ==
    op = "unlink" =>
        /\ targetKind = pre.tkind
        /\ targetKids = pre.tkids
        /\ pc = "returned" => pathKind = "none"

\* A link to a populated directory, removed on the second attempt.
C8_Witness ==
    /\ op = "unlink"
    /\ pc = "returned"
    /\ attempts = 2
    /\ pre.kind = "link"
    /\ targetKind = "dir"
    /\ targetKids # {}

\* C9: a call on a path that does not exist and is no dangling link returns
\* without error, makes no deletion attempt and no delay, and leaves the
\* filesystem as it was, whatever the retry parameters.
C9_AbsentIsNoOp ==
    (pc # "idle" /\ ~exists(pre.kind, pre.tkind) /\ ~islink(pre.kind)) =>
        /\ pc = "returned"
        /\ err = 0
        /\ attempts = 0
        /\ delays = 0
        /\ Snapshot = pre

\* A second call after a call that deleted the path.
C9_Witness ==
    /\ prev = "deleted"
    /\ pc = "returned"
    /\ pre.kind = "none"
    /\ attempts = 0

\* C10: a retry behaves as a fresh call would on what is at the path at the
\* time of the retry: a path that no longer exists is the no-op case (return,
\* no error, nothing touched), anything else is deleted by the operation
\* that matches its current type.
C10_RetryIsFreshCall ==
    [][(pc = "loop" /\ attempt > 1) =>
          IF ~exists(pathKind, targetKind) /\ ~islink(pathKind)
            THEN pc' = "returned" /\ err' = 0
                 /\ UNCHANGED <<pathKind, pathKids, targetKind, targetKids>>
            ELSE op' = Classify(pathKind)]_vars

-----------------------------------------------------------------------------
(***************************************************************************)
(* The claims about load_config and save_config, checked under SpecConfig. *)
(***************************************************************************)
HasBOM(data) == data # <<>> /\ Head(data).k = "bom"

\* C5: a load_config after any sequence of save_config calls returns the
\* mapping given to the most recent save_config, and nothing else.
C5_LoadReturnsLastSaved ==
    (lastOp = "load" /\ lastSaved.any) =>
        /\ loaded.status = "ok"
        /\ loaded.map = lastSaved.map

\* The mapping of the round-trip scenario, loaded back over a root that
\* also holds an example file.
C5_Witness ==
    /\ lastOp = "load"
    /\ lastSaved.any
    /\ preExample.exists
    /\ DOMAIN loaded.map.top = {"log_level"}
    /\ loaded.map.top["log_level"] = Str("INFO")
    /\ DOMAIN loaded.map.secs = {"app"}
    /\ loaded.map.secs["app"]["ffmpeg_path"] = Str("/usr/bin/ffmpeg")

\* C6: load_config writes config.toml only when it is no regular file: a copy
\* of the example if that is a regular file, else the built-in default, whose
\* mapping has listen_port = 8080 and ui.hide_log = false; an existing
\* config.toml and the example are left unchanged, and the mapping returned
\* is that of config.toml alone.
C6_SeedOnlyWhenMissing ==
    lastOp = "load" =>
        /\ example = preExample
        /\ preConfig.exists =>
              /\ config = preConfig
              /\ loaded = LoadResult(preConfig.data)
        /\ (~preConfig.exists /\ preExample.exists) =>
              config = [exists |-> TRUE, data |-> preExample.data]
        /\ (~preConfig.exists /\ ~preExample.exists) =>
              /\ config = [exists |-> TRUE, data |-> _default_config_text]
              /\ loaded.status = "ok"
              /\ loaded.map.top["listen_port"] = Num(8080)
              /\ loaded.map.secs["ui"]["hide_log"] = Bool(FALSE)

\* The first run: neither file is there.
C6_Witness ==
    /\ lastOp = "load"
    /\ ~preConfig.exists
    /\ ~preExample.exists
    /\ config.exists
    /\ loaded.map.top["listen_port"] = Num(8080)

\* C7: a failed primary parse is followed by exactly one fallback (the file
\* read again without its byte-order mark, parsed again); the fallback's
\* mapping is returned if it succeeds and the error is raised if it fails; a
\* successful primary parse runs no fallback; never more than two parses.
C7_OneFallback ==
    lastOp = "load" =>
        LET d == config.data
            body == IF HasBOM(d) THEN Tail(d) ELSE d
            first == toml_loads(d)
            second == toml_loads(body)
        IN  /\ loaded.parses \in {1, 2}
            /\ first.ok =>
                  /\ loaded.parses = 1
                  /\ loaded.status = "ok"
                  /\ loaded.map = first.map
            /\ ~first.ok =>
                  /\ loaded.parses = 2
                  /\ second.ok => (loaded.status = "ok" /\ loaded.map = second.map)
                  /\ ~second.ok => loaded.status = "error"

\* A config.toml with a byte-order mark, loaded through the fallback.
C7_Witness ==
    /\ lastOp = "load"
    /\ HasBOM(config.data)
    /\ loaded.parses = 2
    /\ loaded.status = "ok"
    /\ loaded.map.top["listen_port"] = Num(9090)

-----------------------------------------------------------------------------
(***************************************************************************)
(* The claim about concurrent save_config calls, checked under SpecSave.   *)
(***************************************************************************)
AllClosed == \A p \in Procs : spc[p] = "closed"

\* The process whose text landed last, and where an event sits in the log.
LastLanded == Last(slog).p
At(p, e) == CHOOSE i \in 1..Len(slog) : slog[i] = Event(p, e)

\* C4 as stated: under every interleaving the final content of config.toml
\* is exactly the serialization of the mapping whose write landed last.
C4_LastWriterWins ==
    AllClosed => config.data = toml_dumps(sarg[LastLanded])

\* C4 as amended: the final content starts with the full serialization of
\* the write that landed last; it is exactly that serialization unless the
\* other write landed after the last writer's open-and-truncate and is
\* longer, and then the rest of the other serialization follows it.
C4_LastWriterPrefix ==
    AllClosed =>
        LET l == LastLanded
            mine == toml_dumps(sarg[l])
            theirs == toml_dumps(sarg[Other(l)])
        IN  /\ config.exists
            /\ IF At(Other(l), "land") > At(l, "open") /\ Len(theirs) > Len(mine)
                 THEN config.data =
                        mine \o SubSeq(theirs, Len(mine) + 1, Len(theirs))
                 ELSE config.data = mine

\* Both calls are over and config.toml holds neither serialization.
C4_Witness ==
    /\ AllClosed
    /\ config.data # toml_dumps(sarg[1])
    /\ config.data # toml_dumps(sarg[2])

====
